---- MODULE Spec2Model ----
(***************************************************************************)
(* A state-machine model of NeRFModel (src/models/nerf.py): the parameters *)
(* derived by setup, the occupancy grid owned by the estimator, the        *)
(* train/eval mode switch, and the rendering pipeline forward_ / forward.  *)
(*                                                                         *)
(* Numeric conventions.                                                    *)
(*  - Configuration numbers (radius, planes, step size) are exact          *)
(*    rationals m * 10^e / d, kept as records [m, e, d].                   *)
(*  - Distances along a ray are counted in ticks of render_step_size / 2.  *)
(*  - Densities are counted in units of ln(2) per tick, so that            *)
(*    exp(-density * dt) is the dyadic number 2^-(density * dt).           *)
(*  - Transmittances, weights, opacities and colours are fixed-point       *)
(*    numbers with Precision fractional bits; One stands for 1.0 and       *)
(*    values below 2^-Precision underflow to 0.                            *)
(*  - Ray indices are 1-based (the code's index 0 is index 1 here).        *)
(***************************************************************************)
EXTENDS Integers, Sequences, FiniteSets, TLC

\* ---------------------------------------------------------------- bounds
NumCells == 2
MaxRays == 2
MaxStep == 1
Precision == 3
OccOne == 10
UpdateInterval == 2

Cells == 1..NumCells
One == 2 ^ Precision

VARIABLES config, density, validate_mode,
          occupancy_grid_res, near_plane, far_plane, cone_angle,
          render_step_size, contraction_type, geometry_contraction_type,
          occs, binaries, randomized, background_color, training, last

vars == <<config, density, validate_mode,
          occupancy_grid_res, near_plane, far_plane, cone_angle,
          render_step_size, contraction_type, geometry_contraction_type,
          occs, binaries, randomized, background_color, training, last>>

derived == <<occupancy_grid_res, near_plane, far_plane, cone_angle,
             render_step_size, contraction_type, geometry_contraction_type>>

scene == <<config, density, validate_mode>>

\* ------------------------------------------------------- exact rationals
Num(m, e, d) == [m |-> m, e |-> e, d |-> d]

NumInt(k) == Num(k, 0, 1)

NumMul(a, b) == Num(a.m * b.m, a.e + b.e, a.d * b.d)

NumDivInt(a, n) == Num(a.m, a.e, a.d * n)

Pow10(k) == 10 ^ k

Min(a, b) == IF a <= b THEN a ELSE b

Max(a, b) == IF a >= b THEN a ELSE b

\* a <= b for rationals with positive denominators.  When the decimal
\* exponents are more than 8 apart the comparison is decided by the larger
\* magnitude (all mantissas of the model stay below 10^8).
NumLeq(a, b) ==
    LET k == Min(a.e, b.e) IN
    IF b.e - a.e > 8 THEN (b.m > 0 \/ (b.m = 0 /\ a.m <= 0))
    ELSE IF a.e - b.e > 8 THEN (a.m < 0 \/ (a.m = 0 /\ b.m >= 0))
    ELSE a.m * b.d * Pow10(a.e - k) <= b.m * a.d * Pow10(b.e - k)

NumEq(a, b) == NumLeq(a, b) /\ NumLeq(b, a)

\* ------------------------------------------------------------ the inputs
Radii == {Num(5, -1, 1), Num(1, 0, 1), Num(2, 0, 1)}

SamplesPerRay == {1, 3, 64}

RayChunks == 1..(MaxRays - 1)

\* every combination of scene mode, pruning and chunk size, for one radius
\* and one sample budget whose far plane cuts the rays short, without jitter
RenderConfigs == [radius : {Num(1, 0, 1)}, learned_background : BOOLEAN,
                  num_samples_per_ray : {1}, grid_prune : BOOLEAN,
                  randomized : {FALSE}, ray_chunk : RayChunks]

\* every combination of the inputs of setup, train and eval
SetupConfigs == [radius : Radii, learned_background : BOOLEAN,
                 num_samples_per_ray : SamplesPerRay, grid_prune : BOOLEAN,
                 randomized : BOOLEAN, ray_chunk : {1}]

\* a cell is empty or holds matter of density ln(2) per tick
Densities == [Cells -> {0, 1}]

Colors == {0, 1}

\* validate_empty_rays either hands the empty arrays on or substitutes one
\* placeholder sample of zero length on the first ray.
ValidateModes == {"empty", "placeholder"}

\* Python's None is the empty tuple, a present value x the 1-tuple <<x>>.
None == <<>>

Some(x) == <<x>>

\* ------------------------------------------------------------------ setup
setup_learned(cfg) ==
    [occupancy_grid_res |-> 256,
     near_plane |-> NumInt(0),
     far_plane |-> Num(1, 10, 1),
     cone_angle |-> [pow10 |-> <<10, cfg.num_samples_per_ray>>, minus |-> 1],
     render_step_size |-> Num(1, -2, 1),
     contraction_type |-> "UN_BOUNDED_SPHERE"]

setup_bounded_single_step(cfg) ==
    [occupancy_grid_res |-> 128,
     near_plane |-> NumInt(0),
     far_plane |-> NumMul(Num(10, 0, 1), cfg.radius),
     cone_angle |-> NumInt(0),
     render_step_size |->
         NumDivInt(NumMul(Num(1732, -3, 1), cfg.radius),
                   cfg.num_samples_per_ray),
     contraction_type |-> "AABB"]

setup_bounded(cfg) ==
    [occupancy_grid_res |-> 128,
     near_plane |-> NumInt(0),
     far_plane |-> NumMul(Num(10, 0, 1), cfg.radius),
     cone_angle |-> NumInt(0),
     render_step_size |->
         NumDivInt(NumMul(NumMul(Num(1732, -3, 1), NumInt(2)), cfg.radius),
                   cfg.num_samples_per_ray),
     contraction_type |-> "AABB"]

setup_params(cfg) ==
    IF cfg.learned_background THEN setup_learned(cfg) ELSE setup_bounded(cfg)

\* OccGridEstimator(...) starts with an empty grid; setup fills it when
\* pruning is off.
setup_occs(cfg) == [c \in Cells |-> IF ~cfg.grid_prune THEN OccOne ELSE 0]

setup_binaries(cfg) == [c \in Cells |-> ~cfg.grid_prune]

setup_background_color_white == Some(1)

setup_background_color == None

NoCall(op) == [op |-> op, mode |-> TRUE, rays |-> <<>>, calls |-> <<>>,
               via |-> "none", status |-> "none", out |-> None,
               sampled |-> <<>>, trans |-> <<>>, step |-> -1, arg |-> -1,
               jit |-> <<>>]

setup(cfgs, densities, modes) ==
    /\ config \in cfgs
    /\ density \in densities
    /\ validate_mode \in modes
    /\ occupancy_grid_res = setup_params(config).occupancy_grid_res
    /\ near_plane = setup_params(config).near_plane
    /\ far_plane = setup_params(config).far_plane
    /\ cone_angle = setup_params(config).cone_angle
    /\ render_step_size = setup_params(config).render_step_size
    /\ contraction_type = setup_params(config).contraction_type
    /\ geometry_contraction_type = setup_params(config).contraction_type
    /\ occs = setup_occs(config)
    /\ binaries = setup_binaries(config)
    /\ randomized = config.randomized
    /\ background_color = setup_background_color
    /\ training = TRUE
    /\ last = NoCall("setup")

Init == setup(RenderConfigs, Densities, ValidateModes)

InitSetup ==
    setup(SetupConfigs, {[c \in Cells |-> IF c = 1 THEN 1 ELSE 0]},
          {"placeholder"})

\* ------------------------------------------------------------ train / eval
train_randomized_as(mode) == config.randomized

train_randomized(mode) == mode /\ config.randomized

train(mode) ==
    /\ randomized' = train_randomized(mode)
    /\ training' = mode
    /\ last' = [NoCall("train") EXCEPT !.mode = training]
    /\ UNCHANGED <<scene, derived, occs, binaries, background_color>>

\* eval() clears the flag and calls nn.Module.eval(), which is
\* self.train(False) and so runs the overridden train.
eval ==
    /\ randomized' = train_randomized(FALSE)
    /\ training' = FALSE
    /\ last' = [NoCall("eval") EXCEPT !.mode = training]
    /\ UNCHANGED <<scene, derived, occs, binaries, background_color>>

\* ------------------------------------------------- external configuration
\* The trainer assigns model.background_color before it renders.
set_background_color(c) ==
    /\ background_color' = Some(c)
    /\ last' = [NoCall("set_background_color") EXCEPT !.mode = training]
    /\ UNCHANGED <<scene, derived, occs, binaries, randomized, training>>

\* ------------------------------------------------------------ update_step
OccLn2 == (69 * OccOne) \div 100

RECURSIVE SumSeq(_)
SumSeq(s) == IF s = <<>> THEN 0 ELSE s[1] + SumSeq(Tail(s))

\* occ_eval_fn: density * render_step_size, one step being two ticks.
occ_eval_fn(c) == density[c] * 2 * OccLn2

\* OccGridEstimator._update with ema_decay = 0.95 and occ_thre = 0.01:
\* occs = max(occs * decay, occ), binaries = occs > min(mean(occs), thre).
estimator_update ==
    LET newOccs == [c \in Cells |-> Max((occs[c] * 95) \div 100, occ_eval_fn(c))]
        total == SumSeq([c \in Cells |-> newOccs[c]])
    IN [occs |-> newOccs,
        binaries |-> [c \in Cells |->
            newOccs[c] * 100 * NumCells > Min(total * 100, OccOne * NumCells)]]

\* OccGridEstimator.update_every_n_steps: refresh on every n-th step.
update_every_n_steps(step) ==
    IF step % UpdateInterval = 0
    THEN estimator_update
    ELSE [occs |-> occs, binaries |-> binaries]

update_step_refreshes_any_config == training

update_step_refreshes_any_mode == config.grid_prune

update_step_refreshes == training /\ config.grid_prune

update_step(epoch, global_step) ==
    /\ IF update_step_refreshes
       THEN /\ occs' = update_every_n_steps(global_step).occs
            /\ binaries' = update_every_n_steps(global_step).binaries
            /\ last' = [NoCall("update_step") EXCEPT !.mode = training,
                            !.step = global_step, !.arg = global_step]
       ELSE /\ UNCHANGED <<occs, binaries>>
            /\ last' = [NoCall("update_step") EXCEPT !.mode = training,
                            !.arg = global_step]
    /\ UNCHANGED <<scene, derived, randomized, background_color, training>>

\* ------------------------------------------------------------------- rays
\* A ray is one of two kinds: "hit" starts one step in front of the box and
\* crosses the cells 1..NumCells in order, "miss" lies fully outside the
\* scene AABB and crosses no cell.
RayKinds == {"hit", "miss"}

RayPath(k) == IF k = "hit" THEN [i \in 1..NumCells |-> i] ELSE <<>>

RayT0(k) == 1

RayDir(k) == IF k = "hit" THEN 0 ELSE 1

RayBatches == UNION {[1..n -> RayKinds] : n \in 1..MaxRays}

\* ------------------------------------------------------ external networks
\* geometry(position) -> (density, feature); cell 0 is a position outside
\* the grid.
geometry(cell) ==
    [density |-> IF cell \in Cells THEN density[cell] ELSE 0, feature |-> cell]

\* texture(feature, view direction) -> rgb, one channel.
texture(feature, dir) == (feature + dir) % 2

\* ------------------------------------------------------------ fixed point
\* exp(-x) for x counted in units of ln 2.
Exp2Neg(x) == IF x > Precision THEN 0 ELSE One \div (2 ^ x)

\* product of two fixed-point numbers, rounded to nearest.
FixMul(a, b) == (a * b + One \div 2) \div One

\* the tuple <<F(i), ..., F(n)>>
RECURSIVE Tab(_, _, _)
Tab(F(_), i, n) == IF i > n THEN <<>> ELSE <<F(i)>> \o Tab(F, i + 1, n)

\* ---------------------------------------------------------------- sampling
\* nerfacc.ray_aabb_intersect: entry and exit distance in ticks, or the
\* miss value (infinity) for a ray that does not hit the box.
TInf == 1000000

ray_aabb_intersect(k) ==
    IF RayPath(k) = <<>>
    THEN [t_min |-> TInf, t_max |-> TInf, hits |-> FALSE]
    ELSE [t_min |-> 2 * RayT0(k),
          t_max |-> 2 * (RayT0(k) + Len(RayPath(k))), hits |-> TRUE]

\* distance of tick t in world units
TWorld(t) == NumDivInt(NumMul(NumInt(t), render_step_size), 2)

\* sigma_fn: density at the midpoint of each sample
sigma_fn(s) == geometry(s.cell).density

\* render_visibility_from_density with early_stop_eps = 1e-4, alpha_thre = 0:
\* keep the samples of one ray whose transmittance (the product of
\* exp(-sigma * dt) over the samples in front) is at least the threshold.
RECURSIVE visible(_, _, _)
visible(ss, i, acc) ==
    IF i > Len(ss) THEN <<>>
    ELSE (IF Exp2Neg(acc) >= Max(1, One \div 10000) THEN <<ss[i]>> ELSE <<>>)
         \o visible(ss, i + 1,
                    acc + sigma_fn(ss[i]) * (ss[i].t_end - ss[i].t_start))

\* OccGridEstimator.sampling for one ray: march the occupied cells between
\* max(near_plane, t_min) and min(far_plane, t_max); with a density
\* callback drop the samples behind an opaque prefix.
sample_ray(k, r, jit, bounds, use_sigma_fn) ==
    LET path == RayPath(k)
        all == [j \in 1..Len(path) |->
                  [ray |-> r,
                   t_start |-> 2 * (RayT0(k) + j - 1) + jit,
                   t_end |-> 2 * (RayT0(k) + j) + jit,
                   cell |-> path[j]]]
        Keep(s) ==
            /\ binaries[s.cell]
            /\ NumLeq(near_plane, TWorld(s.t_start))
            /\ NumLeq(TWorld((s.t_start + s.t_end) \div 2), far_plane)
            /\ bounds # None =>
                  /\ bounds[1].t_min <= s.t_start
                  /\ (s.t_start + s.t_end) \div 2 <= bounds[1].t_max
        cand == SelectSeq(all, Keep)
    IN IF use_sigma_fn THEN visible(cand, 1, 0) ELSE cand

RECURSIVE sampling(_, _, _)
sampling(rays, jit, r) ==
    IF r > Len(rays) THEN <<>>
    ELSE sample_ray(rays[r], r, jit[r],
                    IF ~config.learned_background
                    THEN Some(ray_aabb_intersect(rays[r])) ELSE None,
                    config.grid_prune)
         \o sampling(rays, jit, r + 1)

\* models.utils.validate_empty_rays
validate_empty_rays(ss) ==
    IF ss = <<>> /\ validate_mode = "placeholder"
    THEN <<[ray |-> 1, t_start |-> 0, t_end |-> 0, cell |-> 0]>>
    ELSE ss

\* -------------------------------------------------------------- compositor
\* the same pass without the ray indices: the transmittance runs on from
\* one ray into the next
RECURSIVE render_weight_single_ray(_, _, _, _)
render_weight_single_ray(ss, i, ray, acc) ==
    IF i > Len(ss) THEN <<>>
    ELSE LET sdt == sigma_fn(ss[i]) * (ss[i].t_end - ss[i].t_start)
             trans == Exp2Neg(acc)
             alpha == One - Exp2Neg(sdt)
         IN <<[weight |-> FixMul(trans, alpha), trans |-> trans,
               alpha |-> alpha]>>
            \o render_weight_single_ray(ss, i + 1, ss[i].ray, acc + sdt)

\* the same pass with the weight taken to be alpha alone
RECURSIVE render_weight_alpha_only(_, _, _, _)
render_weight_alpha_only(ss, i, ray, acc) ==
    IF i > Len(ss) THEN <<>>
    ELSE LET before == IF ss[i].ray = ray THEN acc ELSE 0
             sdt == sigma_fn(ss[i]) * (ss[i].t_end - ss[i].t_start)
             alpha == One - Exp2Neg(sdt)
         IN <<[weight |-> alpha, trans |-> Exp2Neg(before), alpha |-> alpha]>>
            \o render_weight_alpha_only(ss, i + 1, ss[i].ray, before + sdt)

\* nerfacc.render_weight_from_density with ray_indices: one pass over the
\* packed samples, the accumulated sigma * dt restarting at 0 whenever the
\* ray index changes.
RECURSIVE render_weight_from_density(_, _, _, _)
render_weight_from_density(ss, i, ray, acc) ==
    IF i > Len(ss) THEN <<>>
    ELSE LET before == IF ss[i].ray = ray THEN acc ELSE 0
             sdt == sigma_fn(ss[i]) * (ss[i].t_end - ss[i].t_start)
             trans == Exp2Neg(before)
             alpha == One - Exp2Neg(sdt)
         IN <<[weight |-> FixMul(trans, alpha), trans |-> trans,
               alpha |-> alpha]>>
            \o render_weight_from_density(ss, i + 1, ss[i].ray, before + sdt)

\* nerfacc.accumulate_along_rays: scatter-add weights * values by ray index
RECURSIVE accumulate_ray(_, _, _, _, _)
accumulate_ray(weights, values, ray_indices, r, i) ==
    IF i > Len(weights) THEN 0
    ELSE (IF ray_indices[i] = r THEN weights[i] * values[i] ELSE 0)
         + accumulate_ray(weights, values, ray_indices, r, i + 1)

accumulate_along_rays(weights, values, ray_indices, n_rays) ==
    LET F(r) == accumulate_ray(weights, values, ray_indices, r, 1)
    IN Tab(F, 1, n_rays)

\* ---------------------------------------------------------------- forward_
forward_training_fields_always == TRUE

forward_training_fields == training

composite_no_background(comp, opacity) == comp

\* comp_rgb + self.background_color * (1.0 - opacity)
composite(comp, opacity) == comp + background_color[1] * (One - opacity)

rays_valid_nonnegative(opacity) == opacity >= 0

\* 'rays_valid': opacity > 0
rays_valid(opacity) == opacity > 0

\* lines 130-146: the output dictionary
forward_output(n_rays, sampled, trans_, weights, midpoints, intervals, ray_indices, opacity, depth, comp) ==
    IF background_color = None
    THEN [status |-> "error", out |-> None, sampled |-> Len(sampled),
          trans |-> trans_]
    ELSE [status |-> "ok",
          out |-> [comp_rgb |-> LET F(r) == composite(comp[r], opacity[r])
                                IN Tab(F, 1, n_rays),
                   opacity |-> opacity,
                   depth |-> depth,
                   rays_valid |-> LET F(r) == rays_valid(opacity[r])
                                  IN Tab(F, 1, n_rays),
                   num_samples |-> <<Len(weights)>>]
                  @@ (IF forward_training_fields
                      THEN [weights |-> weights,
                            points |-> midpoints,
                            intervals |-> intervals,
                            ray_indices |-> ray_indices]
                      ELSE <<>>),
          sampled |-> Len(sampled), trans |-> trans_]

\* lines 125-127: opacity, depth and colour of every ray
forward_accumulate(n_rays, sampled, trans_, weights, midpoints, intervals, ray_indices, rgb) ==
    forward_output(n_rays, sampled, trans_, weights, midpoints, intervals,
        ray_indices,
        accumulate_along_rays(weights, LET F(i) == 1 IN Tab(F, 1, Len(weights)),
                              ray_indices, n_rays),
        accumulate_along_rays(weights, midpoints, ray_indices, n_rays),
        accumulate_along_rays(weights, rgb, ray_indices, n_rays))

\* lines 110-124: midpoints, intervals, colours and weights of the samples
forward_evaluate(rays, sampled, ss, w) ==
    forward_accumulate(Len(rays), sampled,
        LET F(i) == w[i].trans IN Tab(F, 1, Len(ss)),
        LET F(i) == w[i].weight IN Tab(F, 1, Len(ss)),
        LET F(i) == (ss[i].t_start + ss[i].t_end) \div 2 IN Tab(F, 1, Len(ss)),
        LET F(i) == ss[i].t_end - ss[i].t_start IN Tab(F, 1, Len(ss)),
        LET F(i) == ss[i].ray IN Tab(F, 1, Len(ss)),
        LET F(i) == texture(geometry(ss[i].cell).feature, RayDir(rays[ss[i].ray]))
        IN Tab(F, 1, Len(ss)))

\* lines 118-124: the weights of the repaired samples
forward_weights(rays, sampled, ss) ==
    forward_evaluate(rays, sampled, ss, render_weight_from_density(ss, 1, 0, 0))

\* lines 108-109: the sample arrays handed to validate_empty_rays
forward_sampled(rays, sampled) ==
    forward_weights(rays, sampled, validate_empty_rays(sampled))

\* lines 63-107: the samples of the batch, then the stages above
forward_(rays, jit) == forward_sampled(rays, sampling(rays, jit, 1))

\* ------------------------------------------------------------- chunk_batch
\* models.utils.chunk_batch: call func on consecutive chunks of chunk_size
\* rays and concatenate every field of the results in order.
NumChunks(n, chunk_size) == (n + chunk_size - 1) \div chunk_size

ChunkOf(s, chunk_size, i) ==
    SubSeq(s, (i - 1) * chunk_size + 1, Min(i * chunk_size, Len(s)))

RECURSIVE ConcatField(_, _, _)
ConcatField(results, f, i) ==
    IF i > Len(results) THEN <<>>
    ELSE results[i].out[f] \o ConcatField(results, f, i + 1)

concat_chunks(rays, chunk_size, results) ==
    IF \A i \in 1..Len(results) : results[i].status = "ok"
    THEN [status |-> "ok",
          out |-> [f \in DOMAIN results[1].out |-> ConcatField(results, f, 1)],
          calls |-> LET F(i) == Len(ChunkOf(rays, chunk_size, i))
                    IN Tab(F, 1, Len(results)),
          sampled |-> LET F(i) == results[i].sampled IN Tab(F, 1, Len(results)),
          trans |-> LET F(i) == results[i].trans IN Tab(F, 1, Len(results))]
    ELSE [status |-> "error",
          out |-> None,
          calls |-> LET F(i) == Len(ChunkOf(rays, chunk_size, i))
                    IN Tab(F, 1, Len(results)),
          sampled |-> LET F(i) == results[i].sampled IN Tab(F, 1, Len(results)),
          trans |-> LET F(i) == results[i].trans IN Tab(F, 1, Len(results))]

chunk_batch(rays, jit, chunk_size) ==
    concat_chunks(rays, chunk_size,
        LET F(i) == forward_(ChunkOf(rays, chunk_size, i),
                             ChunkOf(jit, chunk_size, i))
        IN Tab(F, 1, NumChunks(Len(rays), chunk_size)))

\* ----------------------------------------------------------------- forward
\* stratified = self.randomized: the samples of a ray are shifted by a
\* random offset, here 0 or 1 tick; a ray without samples has none.
Jitters(rays) ==
    {jit \in [1..Len(rays) -> {0, 1}] :
        \A r \in 1..Len(rays) :
            jit[r] = 1 => randomized /\ RayPath(rays[r]) # <<>>}

forward_chunked == ~training

forward_direct(rays, res) ==
    [status |-> res.status, out |-> res.out, calls |-> <<Len(rays)>>,
     sampled |-> <<res.sampled>>, trans |-> <<res.trans>>, via |-> "direct"]

forward_call(rays, jit) ==
    IF forward_chunked
    THEN chunk_batch(rays, jit, config.ray_chunk) @@ [via |-> "chunk_batch"]
    ELSE forward_direct(rays, forward_(rays, jit))

forward(rays) ==
    /\ \E jit \in Jitters(rays) :
          last' = forward_call(rays, jit)
                  @@ [op |-> "forward", mode |-> training, rays |-> rays,
                      step |-> -1, arg |-> -1, jit |-> jit]
    /\ UNCHANGED <<scene, derived, occs, binaries, randomized,
                   background_color, training>>

\* ----------------------------------------------------------------- export
export(export_vertex_color) ==
    /\ last' = [NoCall("export") EXCEPT !.mode = training,
                    !.arg = IF export_vertex_color THEN 1 ELSE 0]
    /\ UNCHANGED <<scene, derived, occs, binaries, randomized,
                   background_color, training>>

Next ==
    \/ \E mode \in BOOLEAN : train(mode)
    \/ eval
    \/ \E c \in Colors : set_background_color(c)
    \/ \E epoch \in {0}, global_step \in 0..MaxStep : update_step(epoch, global_step)
    \/ \E b \in BOOLEAN : export(b)
    \/ \E rays \in RayBatches : forward(rays)

Spec == Init /\ [][Next]_vars

SpecSetup == InitSetup /\ [][Next]_vars

\* ================================================================ claims
TrainingFields == {"weights", "points", "intervals", "ray_indices"}

IsForward == last.op = "forward"

ForwardOk == last.op = "forward" /\ last.status = "ok"

NRays == Len(last.rays)

\* the RenderOutput of one unchunked forward_ pass over the rays of the
\* last call; forward changes nothing, so the model is as it was at the call
Unchunked == forward_(last.rays, last.jit).out

PerRayFields == {"comp_rgb", "opacity", "depth", "rays_valid"}

ChunkedCall ==
    ForwardOk /\ ~last.mode /\ config.ray_chunk < NRays

ZeroSampleCall ==
    /\ IsForward
    /\ background_color # None
    /\ \A i \in 1..Len(last.sampled) : last.sampled[i] = 0

WellShaped ==
    /\ last.status = "ok"
    /\ \A f \in PerRayFields : Len(last.out[f]) = NRays

\* C2 (as stated): when the sampler returns no sample for the whole batch,
\* the call completes with one entry per ray in every per-ray field and
\* opacity, comp_rgb and depth are zero for every ray.
C2_ZeroSamplesAllZero ==
    ZeroSampleCall =>
        /\ WellShaped
        /\ \A r \in 1..NRays :
              /\ last.out.opacity[r] = 0
              /\ last.out.comp_rgb[r] = 0
              /\ last.out.depth[r] = 0

\* C2 (amended): when the sampler returns no sample for the whole batch and
\* background_color is set, the call completes with one entry per ray in
\* every per-ray field, opacity and depth are zero, rays_valid is false and
\* comp_rgb equals background_color for every ray.
C2_ZeroSamplesBackground ==
    ZeroSampleCall =>
        /\ WellShaped
        /\ \A r \in 1..NRays :
              /\ last.out.opacity[r] = 0
              /\ last.out.depth[r] = 0
              /\ ~last.out.rays_valid[r]
              /\ last.out.comp_rgb[r] = background_color[1] * One

C2_Witness ==
    /\ ZeroSampleCall
    /\ last.status = "ok"
    /\ \E r \in 1..NRays : last.rays[r] = "hit"
    /\ background_color = Some(1)
    /\ \A r \in 1..NRays : last.out.comp_rgb[r] = One

\* C3: in every RenderOutput rays_valid[r] is true exactly when
\* opacity[r] > 0, and in bounded mode every ray outside the scene AABB has
\* opacity 0 and rays_valid false, whatever the other rays of the batch are.
C3_MissedRaysInvalid ==
    ForwardOk =>
        \A r \in 1..NRays :
            /\ last.out.rays_valid[r] <=> last.out.opacity[r] > 0
            /\ (~config.learned_background /\ last.rays[r] = "miss") =>
                  (last.out.opacity[r] = 0 /\ ~last.out.rays_valid[r])

C3_Witness ==
    /\ ForwardOk
    /\ ~config.learned_background
    /\ \E r \in 1..NRays : last.rays[r] = "miss" /\ ~last.out.rays_valid[r]
    /\ \E r \in 1..NRays : last.rays[r] = "hit" /\ last.out.rays_valid[r]

AllOccupied == \A c \in Cells : occs[c] = OccOne /\ binaries[c]

\* C4: with grid_prune off every cell of occs and of binaries is occupied
\* in every state reachable after setup.
C4_GridStaysFull == ~config.grid_prune => AllOccupied

C4_Witness ==
    /\ ~config.grid_prune
    /\ last.op = "update_step"
    /\ last.mode
    /\ last.arg % UpdateInterval = 0
    /\ AllOccupied

\* C5: every transmittance lies in [0, 1], the weights of one ray sum to at
\* most 1, and so every opacity lies in [0, 1].
C5_WeightsBounded ==
    IsForward =>
        /\ \A i \in 1..Len(last.trans) : \A j \in 1..Len(last.trans[i]) :
              last.trans[i][j] \in 0..One
        /\ last.status = "ok" =>
              \A r \in 1..NRays : last.out.opacity[r] \in 0..One
        /\ (last.status = "ok" /\ last.mode) =>
              \A r \in 1..NRays :
                  /\ accumulate_ray(last.out.weights,
                                    [i \in 1..Len(last.out.weights) |-> 1],
                                    last.out.ray_indices, r, 1) <= One
                  /\ \A i \in 1..Len(last.out.weights) :
                        last.out.weights[i] \in 0..One

C5_Witness ==
    /\ ForwardOk
    /\ last.mode
    /\ \E i, j \in 1..Len(last.out.weights) :
          /\ i < j
          /\ last.out.ray_indices[i] = last.out.ray_indices[j]
          /\ last.out.weights[i] > 0
          /\ last.out.weights[j] > 0
          /\ last.trans[1][j] < One

\* C6: the stratified flag self.randomized equals (training and
\* config.randomized) in every state reachable after setup, and an
\* evaluation-mode forward call samples without jitter.
C6_RandomizedFollowsMode ==
    /\ randomized = (training /\ config.randomized)
    /\ (IsForward /\ ~last.mode) => \A r \in 1..NRays : last.jit[r] = 0

C6_Witness ==
    /\ last.op = "train"
    /\ ~last.mode
    /\ training
    /\ randomized

\* C7: a training-mode forward runs forward_ once on the whole batch and
\* its output has weights, points, intervals and ray_indices; an
\* evaluation-mode forward goes through chunk_batch and its output has none
\* of the four.
C7_ForwardDispatch ==
    IsForward =>
        /\ last.mode => (last.via = "direct" /\ last.calls = <<NRays>>)
        /\ ~last.mode => last.via = "chunk_batch"
        /\ (last.status = "ok" /\ last.mode) =>
              TrainingFields \subseteq DOMAIN last.out
        /\ (last.status = "ok" /\ ~last.mode) =>
              TrainingFields \cap DOMAIN last.out = {}

C7_Witness ==
    /\ ForwardOk
    /\ ~last.mode
    /\ last.via = "chunk_batch"
    /\ Len(last.calls) >= 2
    /\ DOMAIN last.out = PerRayFields \cup {"num_samples"}

\* C8: setup derives, in bounded mode, resolution 128, near plane 0, far
\* plane 10 * radius, cone angle 0, step size 1.732 * 2 * radius /
\* num_samples_per_ray and contraction AABB; in learned-background mode,
\* resolution 256, near plane 0, far plane 1e10 and the unbounded-sphere
\* contraction; the geometry's contraction type is the model's.
C8_SetupDerivation ==
    /\ ~config.learned_background =>
          /\ occupancy_grid_res = 128
          /\ NumEq(near_plane, NumInt(0))
          /\ NumEq(far_plane,
                   Num(config.radius.m, config.radius.e + 1, config.radius.d))
          /\ NumEq(cone_angle, NumInt(0))
          /\ NumEq(NumMul(render_step_size, NumInt(config.num_samples_per_ray)),
                   Num(3464 * config.radius.m, config.radius.e - 3,
                       config.radius.d))
          /\ contraction_type = "AABB"
    /\ config.learned_background =>
          /\ occupancy_grid_res = 256
          /\ NumEq(near_plane, NumInt(0))
          /\ NumEq(far_plane, Num(10000, 6, 1))
          /\ contraction_type = "UN_BOUNDED_SPHERE"
    /\ geometry_contraction_type = contraction_type

C8_Witness ==
    /\ last.op = "setup"
    /\ ~config.learned_background
    /\ NumEq(config.radius, NumInt(1))
    /\ config.num_samples_per_ray = 64
    /\ NumLeq(Num(541, -4, 1), render_step_size)
    /\ NumLeq(render_step_size, Num(542, -4, 1))
    /\ NumEq(far_plane, NumInt(10))

GridChanged == occs' # occs \/ binaries' # binaries

\* C9: the grid changes only in an update_step made in training mode with
\* grid_prune on, and every such update_step hands its global_step to the
\* grid's refresh.
C9_GridFrame ==
    [][/\ GridChanged =>
             (last'.op = "update_step" /\ training /\ config.grid_prune)
       /\ (last'.op = "update_step" /\ last'.mode /\ config.grid_prune) =>
             last'.step = last'.arg]_vars

C9_Witness ==
    /\ last.op = "update_step"
    /\ last.mode
    /\ config.grid_prune
    /\ last.step = last.arg
    /\ \E c \in Cells : binaries[c]
    /\ \E c \in Cells : ~binaries[c]

\* C10: setup leaves background_color unset and only an assignment from
\* outside sets it; a forward call made while it is unset fails, and a
\* forward call that returns a RenderOutput had it set.
C10_BackgroundPrecondition ==
    /\ [](/\ last.op = "setup" => background_color = None
          /\ (IsForward /\ background_color = None) => last.status = "error"
          /\ ForwardOk => background_color # None)
    /\ [][background_color' # background_color =>
              last'.op = "set_background_color"]_vars

C10_Witness ==
    /\ IsForward
    /\ background_color = None
    /\ last.status = "error"
    /\ NRays >= 1
====
